---- MODULE Spec2Model ----
(***************************************************************************)
(* kissStepper: a step/dir stepper-motor controller driven by an external *)
(* loop (src/src/kissStepper.cpp).  Two controllers are modelled: the     *)
(* non-accelerating kissStepperNoAccel and the accelerating kissStepper   *)
(* that overrides prepareMove, move and stop and adds decelerate.         *)
(*                                                                         *)
(* Representation choices                                                  *)
(*  - hasAccel tells which of the two classes the object is.              *)
(*  - uint32_t times (micros(), m_lastStepTime) are pairs <<hi, lo>> of   *)
(*    16-bit halves, so that arithmetic is modulo 2^32.                    *)
(*  - the float m_stepInterval is a fixed-point number: an integer count  *)
(*    of 1/FixedScale microseconds.  Arithmetic on it is exact up to one  *)
(*    unit of that grid (products are formed on multi-limb integers).      *)
(*  - the float m_constMult = accel / ONE_SECOND^2 is kept as its         *)
(*    numerator, the acceleration.                                         *)
(*  - kissStepper.h is not part of the sources at hand: the state enum,   *)
(*    ONE_SECOND, updatePos, setDir, getDistRemaining, calcMaxAccelDist,  *)
(*    calcDecelDist, accelStep and decelStep follow the specification.     *)
(***************************************************************************)
EXTENDS Integers, Sequences, FiniteSets, TLC

(***************************************************************************)
(* Bounds of the model                                                     *)
(***************************************************************************)
\* forward soft limit (setForwardLimit), steps
FwdLimit == 3
\* magnitude of the reverse soft limit (setReverseLimit), steps
RevLimitMag == 1
\* the largest step interval followed, in whole microseconds: a pulse whose
\* new interval would exceed it is not taken (keeps the fixed-point value
\* inside the integer range)
MaxIntervalUs == 2000000
\* how late after the due time a call of move may read the clock, microseconds
Jitter == 7
\* the lateness of a call of move that arrives a whole step interval late (the
\* shortest interval of the model is 1000 us), microseconds
LateCall == 1000

\* values of setMaxSpeed (steps/s) and setAccel (steps/s^2) drawn at start
MaxSpeeds == {0, 1, 125, 1000}
Accels == {0, 2000, 5000}
\* targets handed to prepareMove: every position inside the limits and one beyond each
Targets == (0 - RevLimitMag - 1) .. (FwdLimit + 1)
\* clock readings (micros()) seen by the call of move that starts a move;
\* the second is 2000 us before the 32-bit counter wraps
StartTimes == { <<0, 7>>, <<65535, 63536>> }
\* lateness of a clock reading relative to the due time of the next pulse
ClockLags == {0 - 1, 0, Jitter, LateCall}

(***************************************************************************)
(* Program constants (kissStepper.h)                                       *)
(***************************************************************************)
ONE_SECOND == 1000000
STATE_STOPPED == 0
STATE_STARTING == 1
STATE_RUN == 2
STATE_ACCEL == 3
STATE_DECEL == 4
\* resolution of the fixed-point model of float: units per microsecond
FixedScale == 1000

(***************************************************************************)
(* uint32_t arithmetic on <<hi, lo>> pairs                                 *)
(***************************************************************************)
\* n (0 <= n < 2^31) as a uint32_t
U32(n) == << n \div 65536, n % 65536 >>

\* (t + n) mod 2^32 for 0 <= n < 2^31
U32Add(t, n) ==
    LET lo == t[2] + (n % 65536)
        hi == t[1] + (n \div 65536) + (lo \div 65536)
    IN  << hi % 65536, lo % 65536 >>

\* (a - b) mod 2^32
U32Sub(a, b) ==
    LET lo == a[2] - b[2]
        br == IF lo < 0 THEN 1 ELSE 0
        hi == a[1] - b[1] - br
    IN  << (hi + 65536) % 65536, (lo + 65536) % 65536 >>

\* a uint32_t below 2^31 as a number
U32Int(t) == t[1] * 65536 + t[2]

\* a >= b on uint32_t
U32Geq(a, b) == a[1] > b[1] \/ (a[1] = b[1] /\ a[2] >= b[2])

(***************************************************************************)
(* Multi-limb naturals (little-endian, base 1000) for the products of the *)
(* interval arithmetic, which exceed the integer range                    *)
(***************************************************************************)
RECURSIVE Carry(_, _)
Carry(s, c) ==
    IF s = << >>
    THEN IF c = 0 THEN << >> ELSE << c % 1000 >> \o Carry(<< >>, c \div 1000)
    ELSE LET v == Head(s) + c
         IN  << v % 1000 >> \o Carry(Tail(s), v \div 1000)

BigFromInt(n) == Carry(<< >>, n)

\* s * m for 0 <= m <= 2000000
BigMulSmall(s, m) == Carry([i \in DOMAIN s |-> s[i] * m], 0)

BigAdd(a, b) ==
    LET n == IF Len(a) > Len(b) THEN Len(a) ELSE Len(b)
        at(s, i) == IF i <= Len(s) THEN s[i] ELSE 0
    IN  Carry([i \in 1..n |-> at(a, i) + at(b, i)], 0)

\* s * n for 0 <= n < 2^31
BigMulInt(s, n) ==
    BigAdd(BigMulSmall(s, n % 1000000),
           IF n \div 1000000 = 0 THEN << >>
           ELSE << 0, 0 >> \o BigMulSmall(s, n \div 1000000))

RECURSIVE BigStrip(_)
BigStrip(s) ==
    IF s # << >> /\ s[Len(s)] = 0 THEN BigStrip(SubSeq(s, 1, Len(s) - 1)) ELSE s

RECURSIVE BigLeqSame(_, _, _)
BigLeqSame(a, b, i) ==
    IF i = 0 THEN TRUE
    ELSE IF a[i] # b[i] THEN a[i] < b[i]
    ELSE BigLeqSame(a, b, i - 1)

\* a <= b
BigLeq(a, b) ==
    LET x == BigStrip(a)
        y == BigStrip(b)
    IN  IF Len(x) # Len(y) THEN Len(x) < Len(y) ELSE BigLeqSame(x, y, Len(x))

RECURSIVE BigToInt(_)
BigToInt(s) == IF s = << >> THEN 0 ELSE Head(s) + 1000 * BigToInt(Tail(s))

\* floor(s / 1000^k)
BigShift(s, k) == IF Len(s) <= k THEN << >> ELSE SubSeq(s, k + 1, Len(s))

\* ONE_SECOND^2 * FixedScale^2 = 10^18
BigUnit == BigMulInt(BigMulInt(BigFromInt(ONE_SECOND), ONE_SECOND), FixedScale * FixedScale)

(***************************************************************************)
(* Interval arithmetic of the accelerating controller (kissStepper.h,     *)
(* after the specification, sections 4.1, 4.3 and 4.4).  A step interval  *)
(* T is an integer count of 1/FixedScale microseconds; constMult is the   *)
(* acceleration a, standing for c = a / ONE_SECOND^2.                      *)
(***************************************************************************)
\* c * T^3 in interval units, rounded down: a * T^3 / 10^18
IntervalDelta(stepInterval, constMult) ==
    BigShift(BigMulSmall(BigMulInt(BigMulInt(BigFromInt(stepInterval), stepInterval),
                                   stepInterval), constMult), 6)

\* T' = T * (1 - c * T^2)
accelStep(stepInterval, constMult) ==
    stepInterval - BigToInt(IntervalDelta(stepInterval, constMult))

\* T' = T * (1 + c * T^2)
decelStep(stepInterval, constMult) ==
    stepInterval + BigToInt(IntervalDelta(stepInterval, constMult))

\* the interval after a decel step stays within MaxIntervalUs
DecelStepInRange(stepInterval, constMult) ==
    BigLeq(IntervalDelta(stepInterval, constMult),
           BigFromInt(MaxIntervalUs * FixedScale - stepInterval))

\* largest t in [lo, hi) with 2a * t^2 <= 10^18, given that lo is one
RECURSIVE SqrtSearch(_, _, _)
SqrtSearch(lo, hi, a2) ==
    IF hi - lo <= 1 THEN lo
    ELSE LET mid == (lo + hi) \div 2
         IN  IF BigLeq(BigMulSmall(BigMulInt(BigFromInt(mid), mid), a2), BigUnit)
             THEN SqrtSearch(mid, hi, a2)
             ELSE SqrtSearch(lo, mid, a2)

\* ONE_SECOND / sqrt(2.0 * a) for the accelerations of the model
MinSpeedTable == [a \in Accels \ {0} |-> SqrtSearch(0, ONE_SECOND * FixedScale + 1, 2 * a)]

\* ONE_SECOND / sqrt(2.0 * m_accel) as a float: the interval of the first step
MinSpeedInterval(accel) == MinSpeedTable[accel]

\* conversion of a float interval to uint32_t: the fraction is dropped
ToWhole(stepInterval) == stepInterval \div FixedScale

\* conversion of a whole number of microseconds to float
ToFloat(whole) == whole * FixedScale

\* largest d in [lo, hi) with d * x <= 10^18, given that lo is one
RECURSIVE QuotSearch(_, _, _)
QuotSearch(lo, hi, x) ==
    IF hi - lo <= 1 THEN lo
    ELSE LET mid == (lo + hi) \div 2
         IN  IF BigLeq(BigMulInt(x, mid), BigUnit)
             THEN QuotSearch(mid, hi, x)
             ELSE QuotSearch(lo, mid, x)

\* smallest power of two h >= lo with h * x > 10^18
RECURSIVE QuotBound(_, _)
QuotBound(h, x) == IF BigLeq(BigMulInt(x, h), BigUnit) THEN QuotBound(2 * h, x) ELSE h

\* distance needed to stop from the current speed ONE_SECOND / T at the
\* configured deceleration: speed^2 / (2a) = 1 / (2c T^2), rounded down
DecelDist(stepInterval, accel) ==
    LET x == BigMulSmall(BigMulInt(BigFromInt(stepInterval), stepInterval), 2 * accel)
    IN  QuotSearch(0, QuotBound(1, x), x)

(***************************************************************************)
(* State                                                                   *)
(***************************************************************************)
VARIABLES
    hasAccel,               \* TRUE: a kissStepper, FALSE: a kissStepperNoAccel
    m_forwardLimit, m_reverseLimit, m_maxSpeed, m_accel,
    m_pos, m_distMoved, m_kissState, m_enabled, m_forwards,
    m_distTotal, m_distAccel, m_distRun,
    m_stepInterval, m_stepIntervalWhole, m_lastStepTime,
    m_constMult, m_maxSpeedStepInterval,
    clock,                  \* the value micros() returned last in the current move
    \* history of the calls, for stating the properties
    lastOp,                 \* the operation called last
    retOk,                  \* what the last prepareMove returned
    fromState,              \* m_kissState when it was called
    pulsed,                 \* the last call emitted a step pulse
    pulses,                 \* step pulses emitted since the last successful prepareMove
    startPos,               \* m_pos at the last successful prepareMove
    reqTarget,              \* the target handed to it
    interrupted,            \* stop, decelerate or disable was called since
    startTime,              \* the clock reading of the call of move made in Starting
    intervalSum,            \* sum of the intervals of the pulses emitted since, us
    elapsed,                \* time that passed since that call, us (not wrapped)
    decelBudget             \* empty, or the one number: the distance that remained at
                            \* the last decelerate of the move in progress, less the
                            \* pulses since

config == << hasAccel, m_forwardLimit, m_reverseLimit, m_maxSpeed, m_accel >>
profile == << m_distTotal, m_distAccel, m_distRun, m_distMoved >>
timing == << m_stepInterval, m_stepIntervalWhole, m_lastStepTime >>
plan == << m_constMult, m_maxSpeedStepInterval >>
driver == << m_enabled, m_forwards >>
moveHistory == << pulses, startPos, reqTarget, interrupted >>
clockHistory == << startTime, intervalSum, elapsed >>
vars == << config, profile, timing, plan, driver, m_pos, m_kissState, clock,
           lastOp, fromState, retOk, pulsed, moveHistory, clockHistory, decelBudget >>

\* The controller after its constructor and begin(): begin() ends in disable(),
\* which stops the controller and marks the driver disabled.
Init ==
    /\ hasAccel \in BOOLEAN
    /\ m_forwardLimit = FwdLimit
    /\ m_reverseLimit = 0 - RevLimitMag
    /\ m_maxSpeed \in MaxSpeeds
    /\ m_accel \in (IF hasAccel THEN Accels ELSE {0})
    /\ m_pos = 0
    /\ m_distMoved = 0
    /\ m_kissState = STATE_STOPPED
    /\ m_enabled = FALSE
    /\ m_forwards = TRUE
    /\ m_distTotal = 0 /\ m_distAccel = 0 /\ m_distRun = 0
    /\ m_stepInterval = 0 /\ m_stepIntervalWhole = 0 /\ m_lastStepTime = << 0, 0 >>
    /\ m_constMult = 0 /\ m_maxSpeedStepInterval = 0
    /\ clock = << 0, 0 >>
    /\ lastOp = "begin" /\ fromState = STATE_STOPPED /\ retOk = FALSE /\ pulsed = FALSE
    /\ pulses = 0 /\ startPos = 0 /\ reqTarget = 0 /\ interrupted = FALSE
    /\ startTime = << 0, 0 >> /\ intervalSum = 0 /\ elapsed = 0
    /\ decelBudget = {}

(***************************************************************************)
(* prepareMove                                                             *)
(***************************************************************************)
\* a clamp that forgets the upper limit
constrain_NoUpper(amt, low, high) == IF amt < low THEN low ELSE amt

\* Arduino's constrain(amt, low, high)
constrain(amt, low, high) == IF amt < low THEN low ELSE IF amt > high THEN high ELSE amt

\* a test that takes a controller in Starting for one that is not moving
NotMoving_OrStarting == m_kissState <= STATE_STARTING

\* "only continue if not already moving"
NotMoving == m_kissState = STATE_STOPPED

\* a test that forgets that a move needs a distance
MoveRequired_SpeedOnly(target) == m_maxSpeed > 0

\* "only continue if movement is required and possible"
MoveRequired(target) == target # m_pos /\ m_maxSpeed > 0

\* distance between the clamped target and the position
DistRemaining(target) == IF target > m_pos THEN target - m_pos ELSE m_pos - target

\* "start motor at full speed": ONE_SECOND / m_maxSpeed, rounded by the remainder test
FullSpeedInterval(maxSpeed) ==
    IF (ONE_SECOND % maxSpeed) >= (maxSpeed \div 2)
    THEN (ONE_SECOND \div maxSpeed) + 1
    ELSE ONE_SECOND \div maxSpeed

\* distance of accel/decel between 0 st/s and maxSpeed
calcMaxAccelDist == (m_maxSpeed * m_maxSpeed) \div (2 * m_accel)

\* triangular or trapezoidal profile: the values of m_distAccel and m_distRun
ProfileAccel(distRemaining) ==
    IF calcMaxAccelDist >= (distRemaining \div 2)
    THEN distRemaining \div 2
    ELSE calcMaxAccelDist

\* a profile whose cruise always ends where the trapezoid's would
ProfileRun_Trapezoid(distRemaining) == distRemaining - ProfileAccel(distRemaining)

ProfileRun(distRemaining) ==
    IF calcMaxAccelDist >= (distRemaining \div 2)
    THEN distRemaining \div 2
    ELSE distRemaining - calcMaxAccelDist

\* the rounded whole of the first step's interval, as the code rounds it:
\* the whole is compared with its own truncated copy
InitialWhole(stepInterval) ==
    LET minSpeedStepInterval == ToWhole(stepInterval)
        whole == minSpeedStepInterval
    IN  IF 2 * (whole - minSpeedStepInterval) > 1 THEN whole + 1 ELSE whole

\* program state a call may leave alone
program == << config, profile, timing, plan, driver, m_pos, m_kissState >>

\* kissStepperNoAccel::prepareMove
NoAccel_prepareMove(t) ==
    LET target == constrain(t, m_reverseLimit, m_forwardLimit)
    IN  IF NotMoving /\ MoveRequired(target)
        THEN /\ m_enabled' = TRUE
             /\ m_forwards' = (target > m_pos)
             /\ m_kissState' = STATE_STARTING
             /\ m_distTotal' = DistRemaining(target)
             /\ m_stepIntervalWhole' = FullSpeedInterval(m_maxSpeed)
             /\ UNCHANGED << config, m_distAccel, m_distRun, m_distMoved, m_pos,
                             m_stepInterval, m_lastStepTime, plan >>
             /\ retOk' = TRUE
        ELSE /\ UNCHANGED program
             /\ retOk' = FALSE

\* kissStepper::prepareMove
prepareMove(t) ==
    LET target == constrain(t, m_reverseLimit, m_forwardLimit)
        distRemaining == DistRemaining(target)
    IN  IF NotMoving /\ MoveRequired(target)
        THEN /\ m_enabled' = TRUE
             /\ m_forwards' = (target > m_pos)
             /\ m_kissState' = STATE_STARTING
             /\ m_distTotal' = distRemaining
             /\ IF m_accel # 0
                THEN /\ m_distAccel' = ProfileAccel(distRemaining)
                     /\ m_distRun' = ProfileRun(distRemaining)
                     /\ m_constMult' = m_accel
                     /\ m_stepInterval' = MinSpeedInterval(m_accel)
                     /\ m_stepIntervalWhole' = InitialWhole(MinSpeedInterval(m_accel))
                     /\ m_maxSpeedStepInterval' = ONE_SECOND \div m_maxSpeed
                ELSE /\ m_distAccel' = 0
                     /\ m_distRun' = distRemaining
                     /\ m_stepIntervalWhole' = FullSpeedInterval(m_maxSpeed)
                     /\ UNCHANGED << m_stepInterval, plan >>
             /\ UNCHANGED << config, m_distMoved, m_pos, m_lastStepTime >>
             /\ retOk' = TRUE
        ELSE /\ UNCHANGED program
             /\ retOk' = FALSE

(***************************************************************************)
(* stop, enable, disable                                                   *)
(***************************************************************************)
\* updatePos: the distance moved is added to the position, with the sign of
\* the direction, and cleared
updatePos(moved) == IF m_forwards THEN m_pos + moved ELSE m_pos - moved

\* kissStepperNoAccel::stop, called with m_distMoved = moved
NoAccel_stop(moved) ==
    /\ m_pos' = updatePos(moved)
    /\ m_distMoved' = 0
    /\ m_distTotal' = 0
    /\ m_kissState' = STATE_STOPPED
    /\ UNCHANGED << m_distAccel, m_distRun >>

\* a stop that forgets to commit the distance moved
stop_NoCommit(moved) ==
    /\ m_pos' = m_pos
    /\ m_distMoved' = 0
    /\ m_distAccel' = 0 /\ m_distRun' = 0 /\ m_distTotal' = 0
    /\ m_kissState' = STATE_STOPPED

\* kissStepper::stop, called with m_distMoved = moved
stop(moved) ==
    /\ m_pos' = updatePos(moved)
    /\ m_distMoved' = 0
    /\ m_distAccel' = 0 /\ m_distRun' = 0 /\ m_distTotal' = 0
    /\ m_kissState' = STATE_STOPPED

\* a disable that switches the driver off without stopping the move
disable_NoStop ==
    /\ m_enabled' = FALSE
    /\ UNCHANGED << config, profile, timing, plan, m_forwards, m_pos, m_kissState >>

\* kissStepperNoAccel::disable: stop() of the controller, then the driver is disabled
disable ==
    /\ IF hasAccel THEN stop(m_distMoved) ELSE NoAccel_stop(m_distMoved)
    /\ m_enabled' = FALSE
    /\ UNCHANGED << config, timing, plan, m_forwards >>

(***************************************************************************)
(* move                                                                    *)
(***************************************************************************)
\* a due test on absolute times: curTime >= m_lastStepTime + m_stepIntervalWhole
PulseDue_Absolute(curTime) ==
    U32Geq(curTime, U32Add(m_lastStepTime, m_stepIntervalWhole))

\* "check timing against stepIntervalWhole": curTime - m_lastStepTime >= m_stepIntervalWhole
PulseDue(curTime) ==
    U32Geq(U32Sub(curTime, m_lastStepTime), U32(m_stepIntervalWhole))

\* "increment lastStepTime"
NextStepTime == U32Add(m_lastStepTime, m_stepIntervalWhole)

\* m_stepIntervalWhole = m_stepInterval = decelStep(m_stepInterval, m_constMult)
DecelInterval ==
    /\ DecelStepInRange(m_stepInterval, m_constMult)
    /\ m_stepInterval' = decelStep(m_stepInterval, m_constMult)
    /\ m_stepIntervalWhole' = ToWhole(m_stepInterval')

\* an accel step that calls decelStep
AccelInterval_Decel ==
    /\ m_stepInterval' = decelStep(m_stepInterval, m_constMult)
    /\ m_stepIntervalWhole' = ToWhole(m_stepInterval')

\* m_stepIntervalWhole = m_stepInterval = accelStep(m_stepInterval, m_constMult)
AccelInterval ==
    /\ m_stepInterval' = accelStep(m_stepInterval, m_constMult)
    /\ m_stepIntervalWhole' = ToWhole(m_stepInterval')

\* m_stepInterval = m_stepIntervalWhole = m_maxSpeedStepInterval
RunInterval ==
    /\ m_stepIntervalWhole' = m_maxSpeedStepInterval
    /\ m_stepInterval' = ToFloat(m_maxSpeedStepInterval)

\* kissStepperNoAccel::move
NoAccel_move(curTime) ==
    IF m_kissState = STATE_RUN
    THEN IF PulseDue(curTime)
         THEN /\ m_lastStepTime' = NextStepTime
              /\ pulsed' = TRUE
              /\ IF m_distMoved + 1 = m_distTotal
                 THEN NoAccel_stop(m_distMoved + 1)
                 ELSE /\ m_distMoved' = m_distMoved + 1
                      /\ UNCHANGED << m_pos, m_kissState, m_distTotal, m_distAccel, m_distRun >>
              /\ UNCHANGED << config, plan, driver, m_stepInterval, m_stepIntervalWhole >>
         ELSE /\ pulsed' = FALSE
              /\ UNCHANGED program
    ELSE IF m_kissState = STATE_STARTING
    THEN /\ m_lastStepTime' = curTime
         /\ m_kissState' = STATE_RUN
         /\ pulsed' = FALSE
         /\ UNCHANGED << config, profile, plan, driver, m_pos, m_stepInterval,
                         m_stepIntervalWhole >>
    ELSE /\ pulsed' = FALSE
         /\ UNCHANGED program

\* an end-of-move test that is one pulse early
ProfileDone_Early(moved) == moved + 1 >= m_distTotal

\* the end of the deceleration: m_distMoved == m_distTotal
ProfileDone(moved) == moved = m_distTotal

\* "progress through speed profile", after the pulse that makes m_distMoved = moved
Progress(moved) ==
    IF m_kissState = STATE_RUN
    THEN IF moved = m_distRun
         THEN IF m_distTotal = m_distRun
              THEN stop(moved) /\ UNCHANGED << m_stepInterval, m_stepIntervalWhole >>
              ELSE /\ m_kissState' = STATE_DECEL
                   /\ DecelInterval
                   /\ m_distMoved' = moved
                   /\ UNCHANGED << m_pos, m_distTotal, m_distAccel, m_distRun >>
         ELSE /\ m_distMoved' = moved
              /\ UNCHANGED << m_pos, m_kissState, m_distTotal, m_distAccel, m_distRun,
                              m_stepInterval, m_stepIntervalWhole >>
    ELSE IF m_kissState = STATE_ACCEL
    THEN /\ m_distMoved' = moved
         /\ UNCHANGED << m_pos, m_distTotal, m_distAccel, m_distRun >>
         /\ IF moved = m_distAccel
            THEN IF m_distRun # m_distAccel
                 THEN m_kissState' = STATE_RUN /\ RunInterval
                 ELSE m_kissState' = STATE_DECEL /\ DecelInterval
            ELSE m_kissState' = STATE_ACCEL /\ AccelInterval
    ELSE IF ProfileDone(moved)
         THEN stop(moved) /\ UNCHANGED << m_stepInterval, m_stepIntervalWhole >>
         ELSE /\ DecelInterval
              /\ m_distMoved' = moved
              /\ UNCHANGED << m_pos, m_kissState, m_distTotal, m_distAccel, m_distRun >>

\* a choice of the first phase that looks at the cruise before the acceleration
FirstPhase_RunFirst ==
    IF m_distRun # 0 THEN STATE_RUN
    ELSE IF m_distAccel # 0 THEN STATE_ACCEL
    ELSE IF m_distTotal # 0 THEN STATE_DECEL
    ELSE STATE_STOPPED

\* "start with the first part of the profile with non-zero length"
FirstPhase ==
    IF m_distAccel # 0 THEN STATE_ACCEL
    ELSE IF m_distRun # 0 THEN STATE_RUN
    ELSE IF m_distTotal # 0 THEN STATE_DECEL
    ELSE STATE_STOPPED

\* kissStepper::move
move(curTime) ==
    IF m_kissState > STATE_STARTING
    THEN IF PulseDue(curTime)
         THEN /\ m_lastStepTime' = NextStepTime
              /\ pulsed' = TRUE
              /\ Progress(m_distMoved + 1)
              /\ UNCHANGED << config, plan, driver >>
         ELSE /\ pulsed' = FALSE
              /\ UNCHANGED program
    ELSE IF m_kissState = STATE_STARTING
    THEN /\ m_lastStepTime' = curTime
         /\ pulsed' = FALSE
         /\ IF FirstPhase # STATE_STOPPED
            THEN m_kissState' = FirstPhase /\ UNCHANGED << profile, m_pos >>
            ELSE stop(m_distMoved)
         /\ UNCHANGED << config, plan, driver, m_stepInterval, m_stepIntervalWhole >>
    ELSE /\ pulsed' = FALSE
         /\ UNCHANGED program

(***************************************************************************)
(* decelerate                                                              *)
(***************************************************************************)
\* a test that takes Starting for a moving phase
Moving_FromStarting == m_kissState >= STATE_STARTING

\* "only while in a moving phase"
Moving == m_kissState > STATE_STARTING

\* getDistRemaining: m_distTotal - m_distMoved
getDistRemaining == m_distTotal - m_distMoved

\* calcDecelDist: the distance to stop from the current interval
calcDecelDist == DecelDist(m_stepInterval, m_accel)

\* decelDist = (maxDecelDist > distRemaining) ? distRemaining : maxDecelDist, on
\* uint32_t: a difference below zero wraps to a number above every distance
DecelDistance ==
    IF getDistRemaining >= 0 /\ calcDecelDist > getDistRemaining
    THEN getDistRemaining
    ELSE calcDecelDist

\* a decelerate that does nothing when no acceleration is configured
decelerate_NoStop ==
    IF Moving /\ m_accel > 0
    THEN /\ m_distAccel' = 0
         /\ m_distRun' = 0
         /\ m_distTotal' = m_distMoved + DecelDistance
         /\ m_kissState' = STATE_DECEL
         /\ UNCHANGED << config, timing, plan, driver, m_pos, m_distMoved >>
    ELSE UNCHANGED program

\* kissStepper::decelerate
decelerate ==
    IF Moving
    THEN IF m_accel > 0
         THEN /\ m_distAccel' = 0
              /\ m_distRun' = 0
              /\ m_distTotal' = m_distMoved + DecelDistance
              /\ m_kissState' = STATE_DECEL
              /\ UNCHANGED << config, timing, plan, driver, m_pos, m_distMoved >>
         ELSE /\ stop(m_distMoved)
              /\ UNCHANGED << config, timing, plan, driver >>
    ELSE UNCHANGED program

(***************************************************************************)
(* The calls of the external loop                                          *)
(***************************************************************************)
\* the values micros() may return to a call of move: the clock never runs
\* backwards; a moving controller is called just before, at, or Jitter after
\* the time its next pulse is due; an arbitrary time passes before a move starts
ClockReadings ==
    IF m_kissState = STATE_STOPPED THEN { clock }
    ELSE IF m_kissState = STATE_STARTING THEN StartTimes
    ELSE { c \in { U32Add(m_lastStepTime, m_stepIntervalWhole + lag) : lag \in ClockLags } :
             U32Sub(c, clock)[1] < 32768 }

\* the call prepareMove(t) of either controller
PrepareCall(t) == IF hasAccel THEN prepareMove(t) ELSE NoAccel_prepareMove(t)

CallPrepareMove ==
    \E t \in Targets :
        /\ PrepareCall(t)
        /\ lastOp' = "prepareMove" /\ fromState' = m_kissState /\ pulsed' = FALSE
        /\ IF retOk'
           THEN /\ pulses' = 0 /\ startPos' = m_pos /\ reqTarget' = t
                /\ interrupted' = FALSE /\ clock' = << 0, 0 >>
                /\ startTime' = << 0, 0 >> /\ intervalSum' = 0 /\ elapsed' = 0
                /\ decelBudget' = {}
           ELSE UNCHANGED << moveHistory, clock, clockHistory, decelBudget >>

CallMove ==
    \E curTime \in ClockReadings :
        /\ IF hasAccel THEN move(curTime) ELSE NoAccel_move(curTime)
        /\ clock' = curTime
        /\ lastOp' = "move" /\ fromState' = m_kissState /\ retOk' = FALSE
        /\ pulses' = IF pulsed' THEN pulses + 1 ELSE pulses
        /\ UNCHANGED << startPos, reqTarget, interrupted >>
        /\ IF m_kissState = STATE_STARTING
           THEN startTime' = curTime /\ intervalSum' = 0 /\ elapsed' = 0
           ELSE /\ startTime' = startTime
                /\ intervalSum' = IF pulsed' THEN intervalSum + m_stepIntervalWhole
                                  ELSE intervalSum
                /\ elapsed' = elapsed + U32Int(U32Sub(curTime, clock))
        /\ decelBudget' = IF m_kissState' = STATE_STOPPED THEN {}
                          ELSE IF pulsed' THEN { n - 1 : n \in decelBudget }
                          ELSE decelBudget

\* a call that cuts the move in progress short
Interrupts(op) ==
    /\ lastOp' = op /\ fromState' = m_kissState /\ retOk' = FALSE /\ pulsed' = FALSE
    /\ interrupted' = (interrupted \/ m_kissState # STATE_STOPPED)
    /\ UNCHANGED << pulses, startPos, reqTarget, clock, clockHistory >>

CallStop ==
    /\ IF hasAccel THEN stop(m_distMoved) ELSE NoAccel_stop(m_distMoved)
    /\ UNCHANGED << config, timing, plan, driver >>
    /\ Interrupts("stop")
    /\ decelBudget' = {}

CallDecelerate ==
    /\ hasAccel
    /\ decelerate
    /\ Interrupts("decelerate")
    /\ decelBudget' = IF m_kissState > STATE_STARTING /\ m_accel > 0
                      THEN { m_distTotal - m_distMoved }
                      ELSE {}

CallDisable ==
    /\ disable
    /\ Interrupts("disable")
    /\ decelBudget' = {}

Next ==
    \/ CallPrepareMove
    \/ CallMove
    \/ CallStop
    \/ CallDecelerate
    \/ CallDisable

Spec == Init /\ [][Next]_vars

(***************************************************************************)
(* Properties                                                              *)
(***************************************************************************)
Limits == m_reverseLimit .. m_forwardLimit

Abs(x) == IF x < 0 THEN 0 - x ELSE x

\* the point of the limits nearest to a target
Clamped(t) == CHOOSE p \in Limits : \A q \in Limits : Abs(t - p) <= Abs(t - q)

\* the distance of the move prepared last
MoveDistance == Abs(Clamped(reqTarget) - startPos)

\* the call of move made last emitted the pulse that ended a move which no
\* stop, decelerate or disable cut short
MoveCompleted ==
    lastOp = "move" /\ pulsed /\ m_kissState = STATE_STOPPED /\ ~interrupted

\* the position the motor is at: the committed position and the pulses since
EffectivePos == IF m_forwards THEN m_pos + m_distMoved ELSE m_pos - m_distMoved

\* C1: a move prepared from a position inside the limits and run by move
\* alone until it returns Stopped ends at the target clamped to the limits.
C1_FinalPosition ==
    (MoveCompleted /\ startPos \in Limits) => m_pos = Clamped(reqTarget)

C1_Witness ==
    /\ MoveCompleted /\ hasAccel /\ m_accel > 0
    /\ reqTarget < m_reverseLimit /\ m_pos = m_reverseLimit /\ pulses = 3

\* C2: the effective position never leaves the limits.
C2_WithinLimits == EffectivePos \in Limits

\* C3: prepareMove called in any state but Stopped returns false and leaves
\* the state, the profile, the timing, the direction, the enable flag and the
\* position unchanged.
C3_PrepareWhileMoving ==
    [][(lastOp' = "prepareMove" /\ m_kissState # STATE_STOPPED)
         => (~retOk' /\ UNCHANGED << m_kissState, profile, timing, driver, m_pos >>)]_vars

C3_Witness ==
    lastOp = "prepareMove" /\ ~retOk /\ m_kissState = STATE_DECEL /\ m_distMoved > 0

\* C4: prepareMove called when Stopped with a target whose clamped value is
\* the position, or with maxSpeed = 0, returns false and changes nothing: a
\* call that returns true had another target (kept in reqTarget) and a
\* positive maxSpeed, and a call that returns false changed nothing.
C4_NoMoveNeeded ==
    [][(lastOp' = "prepareMove" /\ m_kissState = STATE_STOPPED) =>
         /\ retOk' => (Clamped(reqTarget') # m_pos /\ m_maxSpeed # 0)
         /\ ~retOk' => UNCHANGED program]_vars

C4_Witness ==
    /\ lastOp = "prepareMove" /\ ~retOk /\ m_kissState = STATE_STOPPED
    /\ m_maxSpeed > 0 /\ m_pos = m_forwardLimit /\ m_enabled

\* C5: 0 <= distanceMoved <= distanceTotal and
\* distanceAccel <= distanceRun <= distanceTotal in every state.
C5_ProfileOrder ==
    /\ 0 <= m_distMoved /\ m_distMoved <= m_distTotal
    /\ m_distAccel <= m_distRun /\ m_distRun <= m_distTotal

\* the move in progress was prepared with acceleration > 0 and
\* maxSpeed^2 / (2 acceleration) >= distanceRemaining / 2
Triangular ==
    /\ hasAccel /\ m_accel > 0 /\ m_kissState # STATE_STOPPED
    /\ (m_maxSpeed * m_maxSpeed) \div (2 * m_accel) >= MoveDistance \div 2

\* C6: a move prepared under the triangular condition has
\* distanceAccel = distanceRun = distanceRemaining / 2 when prepareMove
\* returns, and is never in the Cruising state.
C6_Triangular ==
    Triangular =>
        /\ m_kissState # STATE_RUN
        /\ (lastOp = "prepareMove" /\ retOk) =>
              (m_distAccel = MoveDistance \div 2 /\ m_distRun = MoveDistance \div 2)

C6_Witness ==
    /\ Triangular /\ MoveDistance = 3 /\ m_kissState = STATE_DECEL
    /\ pulses = 2 /\ ~interrupted

\* C7: a move that nothing cuts short emits exactly as many pulses as its
\* distance: fewer while it is in progress, all of them once it has stopped,
\* and none in the call made in Starting.
C7_PulseCount ==
    /\ [](~interrupted =>
            IF m_kissState = STATE_STOPPED
            THEN pulses = MoveDistance
            ELSE pulses < MoveDistance /\ pulses = m_distMoved)
    /\ [][(lastOp' = "move" /\ m_kissState = STATE_STARTING) => ~pulsed']_vars

C7_Witness == MoveCompleted /\ pulses = 4 /\ ~hasAccel

\* C8: a pulse that leaves the state Accelerating shortens the interval, one
\* that leaves it Decelerating lengthens it, one that leaves it Cruising
\* keeps it.
C8_MonotonicInterval ==
    [][pulsed' =>
         /\ (m_kissState = STATE_ACCEL /\ m_kissState' = STATE_ACCEL)
               => m_stepInterval' < m_stepInterval
         /\ (m_kissState = STATE_DECEL /\ m_kissState' = STATE_DECEL)
               => m_stepInterval' > m_stepInterval
         /\ (m_kissState = STATE_RUN /\ m_kissState' = STATE_RUN)
               => m_stepInterval' = m_stepInterval]_vars

C8_Witness ==
    /\ lastOp = "move" /\ pulsed /\ m_kissState = STATE_ACCEL
    /\ m_stepInterval < MinSpeedInterval(m_accel)

\* C9: stop in any state gives Stopped, adds distanceMoved to the position
\* with the sign of the direction and zeroes the profile distances; after
\* it the position is the one at prepareMove plus or minus the pulses emitted.
C9_Stop ==
    /\ [][lastOp' = "stop" =>
            /\ m_kissState' = STATE_STOPPED
            /\ m_pos' = (IF m_forwards THEN m_pos + m_distMoved ELSE m_pos - m_distMoved)
            /\ m_distAccel' = 0 /\ m_distRun' = 0 /\ m_distTotal' = 0]_vars
    /\ [](lastOp = "stop" =>
            m_pos = (IF m_forwards THEN startPos + pulses ELSE startPos - pulses))

C9_Witness ==
    /\ lastOp = "stop" /\ ~m_forwards /\ pulses = 2 /\ MoveDistance = 4
    /\ hasAccel /\ m_pos = startPos - 2

\* C10: decelerate called in Stopped or Starting changes nothing.
C10_DecelerateIdle ==
    [][(lastOp' = "decelerate" /\ m_kissState <= STATE_STARTING)
         => UNCHANGED program]_vars

C10_Witness ==
    lastOp = "decelerate" /\ m_kissState = STATE_STARTING /\ m_accel > 0

\* the smaller of two numbers
Min(a, b) == IF a < b THEN a ELSE b

\* C11: decelerate called in a moving phase with acceleration > 0 gives the
\* state Decelerating, zeroes distanceAccel and distanceRun, and sets
\* distanceTotal to distanceMoved plus the smaller of the stopping distance
\* and the distance that remained; distanceTotal does not grow and
\* distanceMoved is unchanged.
C11_Decelerate ==
    [][(lastOp' = "decelerate" /\ m_kissState > STATE_STARTING /\ m_accel > 0) =>
         /\ m_kissState' = STATE_DECEL
         /\ m_distAccel' = 0 /\ m_distRun' = 0
         /\ m_distTotal' = m_distMoved
                            + Min(DecelDist(m_stepInterval, m_accel), m_distTotal - m_distMoved)
         /\ m_distTotal' <= m_distTotal
         /\ m_distMoved' = m_distMoved]_vars

\* C12: decelerate called in a moving phase with acceleration 0 has the
\* effect of stop: Stopped, the distance moved committed to the position with
\* the sign of the direction, the distances zeroed, and nothing else changed.
C12_DecelerateNoAccel ==
    [][(lastOp' = "decelerate" /\ m_kissState > STATE_STARTING /\ m_accel = 0) =>
         /\ m_kissState' = STATE_STOPPED
         /\ m_pos' = (IF m_forwards THEN m_pos + m_distMoved ELSE m_pos - m_distMoved)
         /\ m_distMoved' = 0
         /\ m_distAccel' = 0 /\ m_distRun' = 0 /\ m_distTotal' = 0
         /\ UNCHANGED << config, timing, plan, driver >>]_vars

C12_Witness ==
    /\ lastOp = "decelerate" /\ fromState = STATE_RUN /\ m_accel = 0
    /\ m_kissState = STATE_STOPPED /\ pulses = 2 /\ MoveDistance = 4
    /\ ~m_forwards /\ m_pos = startPos - 2

\* C13: disable in any state leaves the controller Stopped with the distance
\* moved committed to the position and the driver disabled, so the driver is
\* disabled only in Stopped; a prepareMove that succeeds leaves the driver
\* enabled in Starting.
C13_DisableStops ==
    /\ [][lastOp' = "disable" =>
            /\ m_kissState' = STATE_STOPPED
            /\ m_pos' = (IF m_forwards THEN m_pos + m_distMoved ELSE m_pos - m_distMoved)
            /\ m_distMoved' = 0
            /\ ~m_enabled']_vars
    /\ [](~m_enabled => m_kissState = STATE_STOPPED)
    /\ [][(lastOp' = "prepareMove" /\ retOk') =>
            (m_enabled' /\ m_kissState' = STATE_STARTING)]_vars

C13_Witness ==
    /\ lastOp = "disable" /\ fromState = STATE_ACCEL /\ ~m_enabled
    /\ m_kissState = STATE_STOPPED /\ pulses = 1 /\ m_forwards /\ m_pos = startPos + 1

\* the state changes a call of move may make
AllowedTransitions ==
    { << STATE_STOPPED, STATE_STOPPED >>,
      << STATE_STARTING, STATE_ACCEL >>, << STATE_STARTING, STATE_RUN >>,
      << STATE_STARTING, STATE_DECEL >>, << STATE_STARTING, STATE_STOPPED >>,
      << STATE_ACCEL, STATE_ACCEL >>, << STATE_ACCEL, STATE_RUN >>,
      << STATE_ACCEL, STATE_DECEL >>,
      << STATE_RUN, STATE_RUN >>, << STATE_RUN, STATE_DECEL >>,
      << STATE_RUN, STATE_STOPPED >>,
      << STATE_DECEL, STATE_DECEL >>, << STATE_DECEL, STATE_STOPPED >> }

\* C14: a call of move changes the state only along the allowed transitions;
\* the accelerating controller leaves Starting for the first of Accelerating,
\* Cruising, Decelerating whose distance is not zero, else for Stopped.
C14_Transitions ==
    [][lastOp' = "move" =>
         /\ << m_kissState, m_kissState' >> \in AllowedTransitions
         /\ (hasAccel /\ m_kissState = STATE_STARTING) =>
               m_kissState' = (IF m_distAccel # 0 THEN STATE_ACCEL
                               ELSE IF m_distRun # 0 THEN STATE_RUN
                               ELSE IF m_distTotal # 0 THEN STATE_DECEL
                               ELSE STATE_STOPPED)]_vars

C14_Witness ==
    /\ lastOp = "move" /\ fromState = STATE_ACCEL /\ m_kissState = STATE_RUN
    /\ pulsed /\ m_distAccel = 1 /\ m_distRun = 3

\* C15: no reachable state is Starting with distanceAccel, distanceRun and
\* distanceTotal all zero.
C15_FallbackUnreachable ==
    m_kissState = STATE_STARTING =>
        ~(m_distAccel = 0 /\ m_distRun = 0 /\ m_distTotal = 0)

C15_Witness ==
    /\ hasAccel /\ m_accel > 0 /\ m_kissState = STATE_STARTING
    /\ m_distAccel = 0 /\ m_distRun = 0 /\ m_distTotal = 1
    /\ lastOp = "decelerate"

\* C16: a prepareMove that succeeds with acceleration 0 (either controller)
\* sets stepIntervalWhole to 1000000 / maxSpeed rounded to the nearest
\* integer, halves up: floor((2 * 1000000 + maxSpeed) / (2 * maxSpeed)).
C16_RoundedInterval ==
    (lastOp = "prepareMove" /\ retOk /\ m_accel = 0) =>
        m_stepIntervalWhole = (2 * ONE_SECOND + m_maxSpeed) \div (2 * m_maxSpeed)

\* C17: whenever the accelerating controller with acceleration > 0 is
\* Cruising, stepIntervalWhole is maxSpeedStepInterval = 1000000 / maxSpeed.
C17_CruiseInterval ==
    (hasAccel /\ m_accel > 0 /\ m_kissState = STATE_RUN) =>
        /\ m_stepIntervalWhole = m_maxSpeedStepInterval
        /\ m_stepIntervalWhole = ONE_SECOND \div m_maxSpeed

\* C18: in a moving phase a call of move emits a pulse exactly when the time
\* since the last pulse time is at least stepIntervalWhole, on the wrapped
\* clock as on the time that really passed, and then adds that
\* stepIntervalWhole to the last pulse time; so the last pulse time is the
\* time recorded in Starting plus the intervals of the pulses emitted
\* (mod 2^32) and is never ahead of the clock.
C18_PulseTiming ==
    /\ [][(lastOp' = "move" /\ m_kissState > STATE_STARTING) =>
            /\ pulsed' <=> U32Geq(U32Sub(clock', m_lastStepTime), U32(m_stepIntervalWhole))
            /\ pulsed' <=> (elapsed' - intervalSum >= m_stepIntervalWhole)
            /\ intervalSum' = intervalSum + (IF pulsed' THEN m_stepIntervalWhole ELSE 0)
            /\ m_lastStepTime' # clock' \/ elapsed' = intervalSum']_vars
    /\ [](m_kissState > STATE_STARTING =>
            /\ m_lastStepTime = U32Add(startTime, intervalSum)
            /\ intervalSum <= elapsed)

C18_Witness ==
    /\ lastOp = "move" /\ pulsed /\ m_kissState = STATE_RUN /\ pulses = 2
    /\ startTime = << 65535, 63536 >> /\ m_lastStepTime = << 0, 0 >>
    /\ elapsed - intervalSum >= m_stepIntervalWhole

\* C19: a move in progress reaches Stopped when move keeps being called; in
\* particular, after decelerate is called in a moving phase with acceleration
\* > 0, the controller is Stopped once the pulses that remained before the
\* call have been emitted: while it is not Stopped, some of them are left.
C19_StopsAfterDecelerate ==
    \A left \in decelBudget : m_kissState # STATE_STOPPED => left > 0

\* the real-valued interval rounded to the nearest whole microsecond
Rounded(stepInterval) == (2 * stepInterval + FixedScale) \div (2 * FixedScale)

\* C20: with acceleration > 0, stepIntervalWhole is always the real-valued
\* stepInterval rounded to the nearest integer.
C20_WholeIsRounded ==
    (hasAccel /\ m_accel > 0) => m_stepIntervalWhole = Rounded(m_stepInterval)

====
